---- MODULE Spec2Model ----
(***************************************************************************)
(* StaleEngine (src/main.py): the listing normalization and classification *)
(* pipeline and the three routes that serve it.                            *)
(*                                                                         *)
(* Python values are tagged records:                                       *)
(*   None            [t |-> "none"]                                        *)
(*   int             [t |-> "int", hi |-> h, lo |-> l], value h*Radix + l  *)
(*                   with 0 <= l < Radix (Python ints are unbounded,       *)
(*                   TLC's are 32 bit)                                     *)
(*   str             [t |-> "str", s |-> <<one-character strings>>]        *)
(*   dict            [t |-> "dict", d |-> function from keys to values]    *)
(*   list            [t |-> "list", l |-> <<values>>]                      *)
(* A raw listing and a normalized listing are the d of a dict.  float and  *)
(* bool values are outside the modelled inputs.                            *)
(***************************************************************************)
EXTENDS Integers, Sequences, FiniteSets, TLC

VARIABLES
    now,          \* datetime.now() of the invocation
    api_key,      \* API_KEY is configured
    upstream,     \* how search_properties ends: "ok", "timeout", "http_error"
    properties,   \* the raw listings search_properties returns
    stale_days,   \* the threshold of the invocation
    pc,           \* "ready", or the operation that ran
    response,     \* the route's response
    result,       \* the outcome of a direct call of a pipeline function
    again         \* the outcome of the call on the previous call's output

vars == <<now, api_key, upstream, properties, stale_days, pc, response, result, again>>

----------------------------------------------------------------------------
(* Values *)

\* the base of the two-digit representation of an int
Radix == 10 ^ 5

None == [t |-> "none"]

IntV(n) == [t |-> "int", hi |-> n \div Radix, lo |-> n % Radix]

BigV(h, l) == [t |-> "int", hi |-> h, lo |-> l]

Str(s) == [t |-> "str", s |-> s]

Dict(d) == [t |-> "dict", d |-> d]

List(l) == [t |-> "list", l |-> l]

EmptyDict == [k \in {} |-> None]

IsInt(v) == v.t = "int"

IsStr(v) == v.t = "str"

IsDict(v) == v.t = "dict"

\* bool(v)
Truthy(v) ==
    CASE v.t = "none" -> FALSE
      [] v.t = "int" -> ~(v.hi = 0 /\ v.lo = 0)
      [] v.t = "str" -> v.s # <<>>
      [] v.t = "dict" -> DOMAIN v.d # {}
      [] v.t = "list" -> v.l # <<>>

\* a or b
Or(a, b) == IF Truthy(a) THEN a ELSE b

\* a >= b on ints
IntGe(a, b) == a.hi > b.hi \/ (a.hi = b.hi /\ a.lo >= b.lo)

IsNegative(v) == v.hi < 0

\* d.get(k, default)
GetOr(d, k, default) == IF k \in DOMAIN d THEN d[k] ELSE default

\* d.get(k)
Get(d, k) == GetOr(d, k, None)

----------------------------------------------------------------------------
(* Strings *)

LowerOf ==
    [A |-> "a", B |-> "b", C |-> "c", D |-> "d", E |-> "e", F |-> "f", G |-> "g",
     H |-> "h", I |-> "i", J |-> "j", K |-> "k", L |-> "l", M |-> "m", N |-> "n",
     O |-> "o", P |-> "p", Q |-> "q", R |-> "r", S |-> "s", T |-> "t", U |-> "u",
     V |-> "v", W |-> "w", X |-> "x", Y |-> "y", Z |-> "z"]

\* str.lower()
Lower(s) == [i \in 1..Len(s) |-> IF s[i] \in DOMAIN LowerOf THEN LowerOf[s[i]] ELSE s[i]]

DigitChars == <<"0", "1", "2", "3", "4", "5", "6", "7", "8", "9">>

IsDigit(c) == \E k \in 1..10 : DigitChars[k] = c

DigitVal(c) == (CHOOSE k \in 1..10 : DigitChars[k] = c) - 1

AllDigits(s) == \A i \in 1..Len(s) : IsDigit(s[i])

RECURSIVE DigitsToNat(_)
\* int(s) of a string of decimal digits (at most 9 of them here)
DigitsToNat(s) ==
    IF s = <<>> THEN 0
    ELSE 10 * DigitsToNat(SubSeq(s, 1, Len(s) - 1)) + DigitVal(s[Len(s)])

RECURSIVE NatToDigits(_)
\* str(n) of n >= 0
NatToDigits(n) ==
    IF n < 10 THEN <<DigitChars[n + 1]>>
    ELSE NatToDigits(n \div 10) \o <<DigitChars[(n % 10) + 1]>>

\* lo as the five low decimal digits of a number with hi > 0
LowDigits(lo) == LET d == NatToDigits(lo) IN [i \in 1..(5 - Len(d)) |-> "0"] \o d

\* str(v) of None, a str or an int (a negative int of 32 bits)
PyStr(v) ==
    CASE v.t = "none" -> <<"N","o","n","e">>
      [] v.t = "str" -> v.s
      [] v.t = "int" ->
           IF v.hi = 0 THEN NatToDigits(v.lo)
           ELSE IF v.hi > 0 THEN NatToDigits(v.hi) \o LowDigits(v.lo)
           ELSE <<"-">> \o NatToDigits(0 - (v.hi * Radix + v.lo))

\* kw in s
Contains(s, kw) ==
    \E i \in 1..(Len(s) - Len(kw) + 1) : \A j \in 1..Len(kw) : s[i + j - 1] = kw[j]

\* s.startswith(p)
StartsWith(s, p) == Len(s) >= Len(p) /\ SubSeq(s, 1, Len(p)) = p

\* s[:n]
Prefix(s, n) == SubSeq(s, 1, IF Len(s) < n THEN Len(s) ELSE n)

RECURSIVE FilterDigits(_)
\* ''.join(filter(str.isdigit, s))
FilterDigits(s) ==
    IF s = <<>> THEN <<>>
    ELSE (IF IsDigit(s[1]) THEN <<s[1]>> ELSE <<>>) \o FilterDigits(Tail(s))

----------------------------------------------------------------------------
(* Dates: datetime.strptime on the three formats, datetime subtraction *)

DateFormats == << <<"%","Y","-","%","m","-","%","d","T","%","H",":","%","M",":","%","S","Z">>, <<"%","Y","-","%","m","-","%","d">>, <<"%","Y","-","%","m","-","%","d","T","%","H",":","%","M",":","%","S">> >>

NoFields == [Y |-> 0, m |-> 0, d |-> 0, H |-> 0, M |-> 0, S |-> 0]

ParseFail == [ok |-> FALSE, f |-> NoFields]

\* the two-digit alternatives of a directive's pattern
InRange2(dir, n) ==
    CASE dir = "m" -> n >= 1 /\ n <= 12
      [] dir = "d" -> n >= 1 /\ n <= 31
      [] dir = "H" -> n <= 23
      [] dir = "M" -> n <= 59
      [] dir = "S" -> n <= 61

\* the one-digit alternative of a directive's pattern
InRange1(dir, n) == IF dir \in {"m", "d"} THEN n >= 1 ELSE TRUE

RECURSIVE strptime_at(_, _, _, _, _)
\* the match of format f from j against data s from i (the pattern is matched
\* ignoring case, an alternative of two digits is tried before one of one digit)
strptime_at(s, f, i, j, acc) ==
    IF j > Len(f) THEN (IF i > Len(s) THEN [ok |-> TRUE, f |-> acc] ELSE ParseFail)
    ELSE IF f[j] = "%" THEN
        IF j = Len(f) \/ f[j + 1] \notin DOMAIN NoFields THEN ParseFail
        ELSE LET dir == f[j + 1]
                 take(w) ==
                     IF i + w - 1 > Len(s) \/ ~AllDigits(SubSeq(s, i, i + w - 1)) THEN ParseFail
                     ELSE LET n == DigitsToNat(SubSeq(s, i, i + w - 1)) IN
                          IF (w = 2 /\ ~InRange2(dir, n)) \/ (w = 1 /\ ~InRange1(dir, n))
                          THEN ParseFail
                          ELSE strptime_at(s, f, i + w, j + 2, [acc EXCEPT ![dir] = n])
             IN IF dir = "Y" THEN take(4)
                ELSE LET two == take(2) IN IF two.ok THEN two ELSE take(1)
    ELSE IF i <= Len(s) /\ Lower(<<s[i]>>) = Lower(<<f[j]>>)
         THEN strptime_at(s, f, i + 1, j + 1, acc)
         ELSE ParseFail

IsLeap(y) == (y % 4 = 0 /\ y % 100 # 0) \/ y % 400 = 0

DaysInMonth(y, m) ==
    IF m = 2 THEN (IF IsLeap(y) THEN 29 ELSE 28)
    ELSE IF m \in {4, 6, 9, 11} THEN 30 ELSE 31

\* the datetime of the parsed fields: a year 0, a day past the month's end or a
\* second of 60 or 61 is a ValueError too
ValidDate(p) ==
    IF p.ok /\ p.f.Y >= 1 /\ p.f.d <= DaysInMonth(p.f.Y, p.f.m) /\ p.f.S <= 59
    THEN p ELSE ParseFail

\* datetime.strptime(s, f): ValueError is ok = FALSE
strptime(s, f) == ValidDate(strptime_at(s, f, 1, 1, [NoFields EXCEPT !.m = 1, !.d = 1]))

\* the day number of a date (days since 1970-01-01)
DayNumber(y, m, d) ==
    LET yy == IF m <= 2 THEN y - 1 ELSE y
        era == yy \div 400
        yoe == yy - era * 400
        mp == IF m > 2 THEN m - 3 ELSE m + 9
        doy == (153 * mp + 2) \div 5 + d - 1
        doe == yoe * 365 + yoe \div 4 - yoe \div 100 + doy
    IN era * 146097 + doe - 719468

SecondOfDay(f) == f.H * 3600 + f.M * 60 + f.S

\* (a - b).days
DeltaDays(a, b) ==
    DayNumber(a.Y, a.m, a.d) - DayNumber(b.Y, b.m, b.d)
      - (IF SecondOfDay(a) < SecondOfDay(b) THEN 1 ELSE 0)

RECURSIVE days_from_formats(_, _, _)

\* one turn of the loop: return (now - list_date).days, or continue
TryFormat(s, k, at, p) == IF p.ok THEN DeltaDays(at, p.f) ELSE days_from_formats(s, k + 1, at)

\* the loop over the formats: the first that parses decides
days_from_formats(s, k, at) ==
    IF k > Len(DateFormats) THEN 0
    ELSE TryFormat(s, k, at, strptime(Prefix(s, 19), Prefix(DateFormats[k], Len(s))))

calculate_days_on_market(list_date_str, at) ==
    IF list_date_str = <<>> THEN 0 ELSE days_from_formats(list_date_str, 1, at)

----------------------------------------------------------------------------
(* Configuration *)

DEFAULT_STALE_DAYS == 90

DescriptionLimit == 500

DISTRESS_KEYWORDS ==
    << <<"p","r","o","b","a","t","e">>, <<"a","s","-","i","s">>, <<"a","s"," ","i","s">>, <<"t","l","c">>, <<"m","o","t","i","v","a","t","e","d">>, <<"f","i","x","e","r">>,
       <<"h","a","n","d","y","m","a","n">>, <<"b","a","n","k"," ","o","w","n","e","d">>, <<"r","e","o">>, <<"f","o","r","e","c","l","o","s","u","r","e">>, <<"e","s","t","a","t","e"," ","s","a","l","e">>,
       <<"i","n","v","e","s","t","o","r">>, <<"c","a","s","h"," ","o","n","l","y">>, <<"n","e","e","d","s"," ","w","o","r","k">>, <<"p","o","t","e","n","t","i","a","l">>, <<"m","u","s","t"," ","s","e","l","l">>,
       <<"d","i","s","t","r","e","s","s","e","d">>, <<"b","e","l","o","w"," ","m","a","r","k","e","t">>, <<"m","u","s","t"," ","s","e","e">>, <<"b","r","i","n","g"," ","o","f","f","e","r","s">> >>

----------------------------------------------------------------------------
(* The pipeline.  A call either returns a value or raises. *)

Return(v) == [raised |-> FALSE, value |-> v]

Raise(e) == [raised |-> TRUE, exc |-> e]

RECURSIVE get_nested_value(_, _, _)
\* data a value, key_path the keys of the dotted path; the KeyError and the
\* TypeError of a missing key or of indexing a non-mapping give the default
get_nested_value(data, key_path, default) ==
    IF key_path = <<>> THEN data
    ELSE IF IsDict(data) /\ Head(key_path) \in DOMAIN data.d
         THEN get_nested_value(data.d[Head(key_path)], Tail(key_path), default)
         ELSE default

\* f"{d.get('street', '')} {d.get('city', '')}"
StreetCity(d) ==
    Str(PyStr(GetOr(d, "street", Str(<<>>))) \o <<" ">> \o PyStr(GetOr(d, "city", Str(<<>>))))

\* line 213-214: an address that is a mapping gives its line, or street and city
AddressLine(address) ==
    IF address.raised THEN address
    ELSE IF IsDict(address.value)
         THEN Return(Or(Get(address.value.d, "line"), StreetCity(address.value.d)))
         ELSE address

\* prop.get("location", {}).get("address", {}).get("line"), for location loc
LocationLine(loc) ==
    IF ~IsDict(loc) THEN Raise("AttributeError")
    ELSE IF ~IsDict(GetOr(loc.d, "address", Dict(EmptyDict))) THEN Raise("AttributeError")
    ELSE Return(Get(GetOr(loc.d, "address", Dict(EmptyDict)).d, "line"))

\* the or chain behind a falsy prop.get("address")
AddressFallback(prop, line) ==
    IF line.raised THEN line
    ELSE Return(Or(Or(line.value, Get(prop, "streetAddress")), StreetCity(prop)))

\* lines 206-214; raises when location or location.address is not a mapping
ResolveAddress(prop) ==
    AddressLine(
      IF Truthy(Get(prop, "address")) THEN Return(Get(prop, "address"))
      ELSE AddressFallback(prop, LocationLine(GetOr(prop, "location", Dict(EmptyDict)))))

\* lines 225-226
PriceOf(price) == IF IsStr(price) THEN IntV(DigitsToNat(FilterDigits(price.s))) ELSE price

\* lines 216-226
ResolvePrice(prop) ==
    PriceOf(Or(Or(Or(Or(Get(prop, "price"), Get(prop, "list_price")),
                     Get(prop, "listPrice")),
                  get_nested_value(Dict(prop), <<"price_raw">>, None)),
               IntV(0)))

\* lines 236-239 had they taken a days value above 10,000 for milliseconds
DaysOfMilliseconds(days_on, list_date, at) ==
    IF IsInt(days_on) /\ IntGe(days_on, IntV(10001)) THEN IntV(days_on.hi \div 864)
    ELSE IF ~Truthy(days_on) /\ Truthy(list_date)
    THEN IntV(calculate_days_on_market(PyStr(list_date), at))
    ELSE days_on

\* lines 236-239, for the days_on and the list_date resolved
DaysOf(days_on, list_date, at) ==
    IF ~Truthy(days_on) /\ Truthy(list_date)
    THEN IntV(calculate_days_on_market(PyStr(list_date), at))
    ELSE days_on

\* lines 228-239
ResolveDays(prop, at) ==
    DaysOf(Or(Or(Or(Get(prop, "days_on_market"), Get(prop, "daysOnMarket")),
                 Get(prop, "dom")),
              IntV(0)),
           Or(Or(Get(prop, "list_date"), Get(prop, "listDate")), Get(prop, "listed_date")),
           at)

\* lines 242-247
ResolveDescription(prop) ==
    Or(Or(Or(Get(prop, "description"), Get(prop, "text")),
          get_nested_value(Dict(prop), <<"description", "text">>, None)),
       Str(<<>>))

\* lines 257-258; raises when the resolved url is truthy and not a str
Absolute(prop_url) ==
    IF ~Truthy(prop_url) THEN Return(prop_url)
    ELSE IF ~IsStr(prop_url) THEN Raise("AttributeError")
    ELSE IF StartsWith(prop_url.s, <<"h","t","t","p">>) THEN Return(prop_url)
    ELSE Return(Str(<<"h","t","t","p","s",":","/","/","w","w","w",".","r","e","a","l","t","o","r",".","c","o","m">> \o prop_url.s))

\* lines 250-258
ResolveUrl(prop) ==
    Absolute(Or(Or(Or(Or(Get(prop, "url"), Get(prop, "property_url")),
                      Get(prop, "permalink")),
                   Get(prop, "rdc_web_url")),
                Str(<<>>)))

\* line 273: description[:500] if description else None; a mapping or a number
\* cannot be sliced
PresentedDescription(description) ==
    IF ~Truthy(description) THEN Return(None)
    ELSE IF IsStr(description) THEN Return(Str(Prefix(description.s, DescriptionLimit)))
    ELSE IF description.t = "list" THEN Return(List(Prefix(description.l, DescriptionLimit)))
    ELSE Raise("TypeError")

\* line 275: (photo or primary_photo.href) if primary_photo is a dict else primary_photo
ResolveImage(prop) ==
    IF IsDict(Get(prop, "primary_photo"))
    THEN Or(Get(prop, "photo"), Get(Get(prop, "primary_photo").d, "href"))
    ELSE Get(prop, "primary_photo")

Nested(prop, key_path) == get_nested_value(Dict(prop), key_path, None)

\* lines 260-276, for the address, url and description resolved: the first of
\* them that raised is what the call raises
Normalized(prop, at, address, prop_url, description) ==
    IF address.raised THEN address
    ELSE IF prop_url.raised THEN prop_url
    ELSE IF description.raised THEN description
    ELSE Return(
      [id |-> Or(Or(Get(prop, "property_id"), Get(prop, "zpid")), Get(prop, "id")),
       address |-> address.value,
       city |-> Or(Get(prop, "city"), Nested(prop, <<"location", "address", "city">>)),
       state |-> Or(Get(prop, "state"), Nested(prop, <<"location", "address", "state_code">>)),
       zip |-> Or(Or(Get(prop, "postal_code"), Get(prop, "zip")),
                  Nested(prop, <<"location", "address", "postal_code">>)),
       price |-> ResolvePrice(prop),
       bedrooms |-> Or(Or(Get(prop, "beds"), Get(prop, "bedrooms")),
                       Nested(prop, <<"description", "beds">>)),
       bathrooms |-> Or(Or(Get(prop, "baths"), Get(prop, "bathrooms")),
                        Nested(prop, <<"description", "baths">>)),
       sqft |-> Or(Or(Get(prop, "sqft"), Get(prop, "livingArea")),
                   Nested(prop, <<"description", "sqft">>)),
       property_type |-> Or(Or(Get(prop, "type"), Get(prop, "propertyType")),
                            Nested(prop, <<"description", "type">>)),
       days_on_market |-> ResolveDays(prop, at),
       list_date |-> Or(Get(prop, "list_date"), Get(prop, "listDate")),
       description |-> description.value,
       url |-> prop_url.value,
       image |-> ResolveImage(prop)])

normalize_property(prop, at) ==
    Normalized(prop, at, ResolveAddress(prop), ResolveUrl(prop),
               PresentedDescription(ResolveDescription(prop)))

\* normalized["signal"] = "STALE"
TagStale(normalized) == [signal |-> Str(<<"S","T","A","L","E">>)] @@ normalized

\* line 287: days_on >= stale_days
IsStale(days_on, d) == IntGe(days_on, IntV(d))

RECURSIVE stale_loop(_, _, _, _, _)

\* lines 285-289 for listing k, normalized: comparing a days value that is not
\* a number with the threshold raises
StaleStep(props, d, at, k, leads, normalized) ==
    IF normalized.raised THEN normalized
    ELSE IF ~IsInt(GetOr(normalized.value, "days_on_market", IntV(0))) THEN Raise("TypeError")
    ELSE stale_loop(props, d, at, k + 1,
           IF IsStale(GetOr(normalized.value, "days_on_market", IntV(0)), d)
           THEN Append(leads, TagStale(normalized.value)) ELSE leads)

\* the loop of extract_stale_leads from listing k on
stale_loop(props, d, at, k, leads) ==
    IF k > Len(props) THEN Return(leads)
    ELSE StaleStep(props, d, at, k, leads, normalize_property(props[k], at))

extract_stale_leads(props, d, at) == stale_loop(props, d, at, 1, <<>>)

\* lines 302-305
Searchable(normalized) ==
    Lower(PyStr(GetOr(normalized, "address", Str(<<>>))) \o <<" ">>
          \o PyStr(GetOr(normalized, "description", Str(<<>>))))

\* line 307 had it stopped at the first keyword found
FirstKeywordOnly(searchable) ==
    Prefix(SelectSeq(DISTRESS_KEYWORDS, LAMBDA kw : Contains(searchable, kw)), 1)

\* line 307
MatchedKeywords(searchable) ==
    SelectSeq(DISTRESS_KEYWORDS, LAMBDA kw : Contains(searchable, kw))

TagDistress(normalized, matched) ==
    [signal |-> Str(<<"D","I","S","T","R","E","S","S">>),
     matched_keywords |-> List([i \in 1..Len(matched) |-> Str(matched[i])])] @@ normalized

RECURSIVE distress_loop(_, _, _, _)

\* lines 309-312 for a listing normalized to value, with its matched keywords
DistressMatch(props, at, k, leads, value, matched) ==
    distress_loop(props, at, k + 1,
       IF matched # <<>> THEN Append(leads, TagDistress(value, matched)) ELSE leads)

\* lines 299-312 for listing k, normalized
DistressStep(props, at, k, leads, normalized) ==
    IF normalized.raised THEN normalized
    ELSE DistressMatch(props, at, k, leads, normalized.value,
                       MatchedKeywords(Searchable(normalized.value)))

\* the loop of extract_distress_signals from listing k on
distress_loop(props, at, k, leads) ==
    IF k > Len(props) THEN Return(leads)
    ELSE DistressStep(props, at, k, leads, normalize_property(props[k], at))

extract_distress_signals(props, at) == distress_loop(props, at, 1, <<>>)

RECURSIVE InsertBeforeTies(_, _)
\* the sort had it not been stable: x placed before the leads of equal days
InsertBeforeTies(sorted, x) ==
    IF sorted = <<>> THEN <<x>>
    ELSE IF IntGe(x.days_on_market, Head(sorted).days_on_market)
         THEN <<x>> \o sorted
         ELSE <<Head(sorted)>> \o InsertBeforeTies(Tail(sorted), x)

RECURSIVE InsertByDays(_, _)
\* x placed behind every lead whose days_on_market is at least its own
InsertByDays(sorted, x) ==
    IF sorted = <<>> THEN <<x>>
    ELSE IF IntGe(Head(sorted).days_on_market, x.days_on_market)
         THEN <<Head(sorted)>> \o InsertByDays(Tail(sorted), x)
         ELSE <<x>> \o sorted

RECURSIVE SortByDaysDesc(_)
\* leads.sort(key=lambda x: x.get('days_on_market', 0), reverse=True): stable
SortByDaysDesc(leads) ==
    IF leads = <<>> THEN <<>>
    ELSE InsertByDays(SortByDaysDesc(SubSeq(leads, 1, Len(leads) - 1)), leads[Len(leads)])

\* {l.get('id') for l in leads if l.get('id')}
IdSet(leads) == {leads[i].id : i \in {j \in 1..Len(leads) : Truthy(leads[j].id)}}

\* line 488 had it united the two id sets
HotIdsEither(stale_leads, distress_leads) == IdSet(stale_leads) \cup IdSet(distress_leads)

\* line 488
HotIds(stale_leads, distress_leads) == IdSet(stale_leads) \cap IdSet(distress_leads)

\* a set's elements must be hashable
Hashable(v) == v.t \notin {"dict", "list"}

IdsHashable(leads) == \A i \in 1..Len(leads) : Truthy(leads[i].id) => Hashable(leads[i].id)

----------------------------------------------------------------------------
(* The routes *)

Response(status, body) == [status |-> status, body |-> body]

NoResponse == [status |-> 0]

NoResult == [op |-> "none"]

MissingLocation ==
    Response(400, [success |-> FALSE, error |-> "Missing required 'location' parameter"])

NoApiKey == Response(500, [success |-> FALSE, error |-> "API key not configured"])

\* the except clauses of a route
UpstreamError ==
    IF upstream = "timeout"
    THEN Response(504, [success |-> FALSE, error |-> "Request timed out"])
    ELSE Response(502, [success |-> FALSE, error |-> "API error"])

ServerError(exc) == Response(500, [success |-> FALSE, error |-> exc])

NoProperties == [success |-> TRUE, message |-> "No properties found"]

\* the checks a route makes before it classifies; body is the route's answer to
\* an empty upstream list, served its further answer
Guarded(location_given, body, served) ==
    IF ~location_given THEN MissingLocation
    ELSE IF ~api_key THEN NoApiKey
    ELSE IF upstream # "ok" THEN UpstreamError
    ELSE IF properties = <<>> THEN Response(200, NoProperties @@ body)
    ELSE served

\* lines 370-378, for the sorted leads
StaleBody(leads) ==
    Response(200, [success |-> TRUE, total_searched |-> Len(properties),
                   results_count |-> Len(leads), leads |-> leads])

\* lines 367-378 and the route's except Exception
StaleServed(leads) ==
    IF leads.raised THEN ServerError(leads.exc) ELSE StaleBody(SortByDaysDesc(leads.value))

find_stale(location_given, d) ==
    Guarded(location_given, [results_count |-> 0, leads |-> <<>>],
            StaleServed(extract_stale_leads(properties, d, now)))

\* lines 423-434 and the route's except Exception
DistressServed(leads) ==
    IF leads.raised THEN ServerError(leads.exc)
    ELSE Response(200, [success |-> TRUE, total_searched |-> Len(properties),
                        results_count |-> Len(leads.value), leads |-> leads.value])

find_distress(location_given) ==
    Guarded(location_given, [results_count |-> 0, leads |-> <<>>],
            DistressServed(extract_distress_signals(properties, now)))

\* lines 490-508
CombinedBody(stale_leads, distress_leads, hot_ids) ==
    Response(200,
      [success |-> TRUE, total_searched |-> Len(properties),
       summary |-> [stale |-> Len(stale_leads), distress |-> Len(distress_leads),
                    hot |-> Cardinality(hot_ids)],
       hot_lead_ids |-> hot_ids,
       stale_leads |-> stale_leads,
       distress_leads |-> distress_leads])

\* lines 483-508, for the sorted stale leads: an id that cannot be hashed raises
CombinedSorted(stale_leads, distress_leads) ==
    IF ~IdsHashable(stale_leads) \/ ~IdsHashable(distress_leads) THEN ServerError("TypeError")
    ELSE CombinedBody(stale_leads, distress_leads, HotIds(stale_leads, distress_leads))

\* lines 480-508 and the route's except Exception
CombinedServed(stale_leads, distress_leads) ==
    IF stale_leads.raised THEN ServerError(stale_leads.exc)
    ELSE IF distress_leads.raised THEN ServerError(distress_leads.exc)
    ELSE CombinedSorted(SortByDaysDesc(stale_leads.value), distress_leads.value)

combined_search(location_given, d) ==
    Guarded(location_given,
            [summary |-> [stale |-> 0, distress |-> 0, hot |-> 0],
             stale_leads |-> <<>>, distress_leads |-> <<>>],
            CombinedServed(extract_stale_leads(properties, d, now),
                           extract_distress_signals(properties, now)))

----------------------------------------------------------------------------
(* The inputs of an invocation *)

MaxListings == 2

Thresholds == {0, DEFAULT_STALE_DAYS, 120}

\* 2026-11-03 12:00:00
Nows == {[Y |-> 2026, m |-> 11, d |-> 3, H |-> 12, M |-> 0, S |-> 0]}

Pad(n) == [i \in 1..n |-> "x"]

\* a description whose only keyword starts past DescriptionLimit
LongDescription == Pad(DescriptionLimit - 5) \o <<" ","t","h","e","n"," ","a"," ","F","o","r","e","c","l","o","s","u","r","e">>

BankOwned == [id |-> IntV(1), days_on_market |-> IntV(120), description |-> Str(<<"b","a","n","k"," ","o","w","n","e","d">>)]

Fresh == [id |-> IntV(2), days_on_market |-> IntV(10), description |-> Str(<<"n","i","c","e"," ","h","o","m","e">>)]

StaleOnly ==
    [id |-> IntV(1), dom |-> IntV(120), type |-> Str(<<"c","o","n","d","o">>), photo |-> Str(<<"p",".","j","p","g">>),
     address |-> Str(<<"1"," ","M","a","i","n"," ","S","t">>)]

DistressOnly ==
    [id |-> IntV(1), days_on_market |-> IntV(10),
     text |-> Str(<<"E","s","t","a","t","e"," ","S","a","l","e"," ","-"," ","M","o","t","i","v","a","t","e","d"," ","S","e","l","l","e","r">>)]

NoId == [days_on_market |-> IntV(200), description |-> Str(<<"R","E","O",","," ","m","u","s","t"," ","s","e","l","l">>)]

ZeroId == [id |-> IntV(0), daysOnMarket |-> IntV(95), description |-> Str(<<"F","i","x","e","r">>)]

LongListing ==
    [property_id |-> Str(<<"M","7">>), list_date |-> Str(<<"2","0","2","6","-","0","1","-","0","1">>),
     description |-> Str(LongDescription)]

BadLocation == [id |-> IntV(5), days_on_market |-> IntV(150), location |-> Str(<<"H","o","u","s","t","o","n">>)]

TextDays == [id |-> IntV(6), days_on_market |-> Str(<<"1","2","0">>)]

\* the listings the lists of an upstream answer are made of
Listings ==
    {BankOwned, Fresh, StaleOnly, DistressOnly, NoId, ZeroId, LongListing, BadLocation,
     TextDays}

DaysFields ==
    {EmptyDict,
     [days_on_market |-> IntV(0)],
     [days_on_market |-> IntV(120)],
     [days_on_market |-> IntV(0 - 5)],
     [days_on_market |-> IntV(10001)],
     [days_on_market |-> BigV(77760, 0)],
     [days_on_market |-> Str(<<"1","2","0">>)],
     [days_on_market |-> None, daysOnMarket |-> IntV(95)],
     [dom |-> IntV(91)],
     [daysOnZillow |-> BigV(77760, 0)]}

DateFields ==
    {EmptyDict,
     [list_date |-> Str(<<"2","0","2","6","-","0","1","-","0","1">>)],
     [list_date |-> Str(<<"2","0","2","6","-","0","1","-","0","1","T","1","0",":","0","0",":","0","0","Z">>)],
     [list_date |-> Str(<<"2","0","2","6","-","0","1","-","0","1","T","1","0",":","0","0",":","0","0">>)],
     [list_date |-> Str(<<"2","0","2","7","-","0","1","-","0","1">>)],
     [list_date |-> Str(<<"2","0","2","6","-","1","1","-","0","3","T","2","3",":","0","0",":","0","0">>)],
     [list_date |-> Str(<<"2","0","2","6","-","2","-","3","0">>)],
     [list_date |-> Str(<<"n","o","t"," ","a"," ","d","a","t","e">>)],
     [list_date |-> IntV(20260101)],
     [listDate |-> Str(<<"2","0","2","6","-","0","8","-","0","5">>)],
     [listed_date |-> Str(<<"2","0","2","6","-","0","8","-","0","5","T","0","0",":","0","0",":","0","0",".","0","0","0","Z">>)]}

OtherFields ==
    {[price |-> Str(<<"$","4","5","0",",","0","0","0">>)],
     [price |-> Str(<<"c","a","l","l"," ","u","s">>)],
     [price |-> IntV(450000)],
     [price |-> IntV(0 - 100)],
     [price |-> IntV(0), list_price |-> IntV(7)],
     [listPrice |-> Str(<<"1",",","2","0","0",".","5","0">>)],
     [price_raw |-> IntV(5)],
     [description |-> Dict([text |-> Str(<<"f","o","r","e","c","l","o","s","u","r","e">>)])],
     [description |-> Dict(EmptyDict), text |-> Str(<<"H","a","n","d","y","m","a","n"," ","s","p","e","c","i","a","l">>)],
     [description |-> IntV(7)],
     [description |-> Str(LongDescription)],
     [description |-> Str(<<"F","i","x","e","r"," ","u","p","p","e","r","."," ">> \o LongDescription)],
     [address |-> Str(<<"9"," ","E","l","m"," ","S","t",","," ","s","o","l","d"," ","A","s","-","I","s">>)],
     [address |-> Dict([line |-> Str(<<"2"," ","O","a","k"," ","A","v","e">>)])],
     [address |-> Dict([street |-> Str(<<"3"," ","P","i","n","e"," ","R","d">>), city |-> Str(<<"A","u","s","t","i","n">>)])],
     [address |-> IntV(12)],
     [location |-> Str(<<"H","o","u","s","t","o","n">>)],
     [location |-> None],
     [location |-> Dict([address |-> Str(<<"4"," ","F","i","r"," ","L","n">>)])],
     [location |-> Dict([address |-> Dict([line |-> Str(<<"5"," ","A","s","h"," ","C","t">>), city |-> Str(<<"W","a","c","o">>),
                                           state_code |-> Str(<<"T","X">>),
                                           postal_code |-> Str(<<"7","6","7","0","1">>)])])],
     [streetAddress |-> Str(<<"6"," ","B","a","y"," ","D","r">>)],
     [street |-> Str(<<"7"," ","C","e","d","a","r"," ","W","a","y">>), city |-> Str(<<"D","a","l","l","a","s">>), state |-> Str(<<"T","X">>),
      postal_code |-> IntV(75001)],
     [url |-> Str(<<"/","r","e","a","l","e","s","t","a","t","e","a","n","d","h","o","m","e","s","-","d","e","t","a","i","l","/","M","7">>)],
     [url |-> Str(<<"h","t","t","p","s",":","/","/","w","w","w",".","r","e","a","l","t","o","r",".","c","o","m","/","M","7">>)],
     [url |-> IntV(5)],
     [permalink |-> Str(<<"M","8">>)],
     [rdc_web_url |-> Dict(EmptyDict)],
     [beds |-> IntV(3), baths |-> IntV(2), livingArea |-> IntV(1500),
      propertyType |-> Str(<<"c","o","n","d","o">>)],
     [photo |-> Str(<<"p",".","j","p","g">>)],
     [photo |-> Str(<<"p",".","j","p","g">>), primary_photo |-> Dict([href |-> Str(<<"h",".","j","p","g">>)])],
     [primary_photo |-> Str(<<"s",".","j","p","g">>)],
     [zpid |-> Str(<<"Z","1">>), id |-> IntV(4)],
     [id |-> Dict([a |-> IntV(1)]), description |-> Str(<<"B","r","i","n","g"," ","O","f","f","e","r","s">>)]}

\* single listings: every days field with every date field, and each of the
\* other fields on a stale listing
RawListings ==
    {days @@ date : days \in DaysFields, date \in DateFields}
      \cup {other @@ [id |-> IntV(9), days_on_market |-> IntV(100)] : other \in OtherFields}

RECURSIVE SeqsOf(_, _)
\* the sequences over S of length n
SeqsOf(S, n) ==
    IF n = 0 THEN {<<>>}
    ELSE {Append(s, x) : s \in SeqsOf(S, n - 1), x \in S}

ListingLists ==
    UNION {SeqsOf(Listings, n) : n \in 0..MaxListings} \cup {<<p>> : p \in RawListings}

----------------------------------------------------------------------------
(* The state machine: one invocation, of a route or of a pipeline function *)

Init ==
    /\ now \in Nows
    /\ \/ api_key = TRUE /\ upstream = "ok" /\ properties \in ListingLists
       \/ api_key = TRUE /\ upstream \in {"timeout", "http_error"} /\ properties = <<>>
       \/ api_key = FALSE /\ upstream = "ok" /\ properties = <<BankOwned>>
    /\ stale_days = DEFAULT_STALE_DAYS
    /\ pc = "ready"
    /\ response = NoResponse
    /\ result = NoResult
    /\ again = NoResult

\* GET /find-stale
FindStale ==
    /\ pc = "ready"
    /\ \E location_given \in BOOLEAN, d \in Thresholds :
          /\ stale_days' = d
          /\ response' = find_stale(location_given, d)
    /\ pc' = "find_stale"
    /\ UNCHANGED <<now, api_key, upstream, properties, result, again>>

\* GET /find-distress
FindDistress ==
    /\ pc = "ready"
    /\ \E location_given \in BOOLEAN : response' = find_distress(location_given)
    /\ pc' = "find_distress"
    /\ UNCHANGED <<now, api_key, upstream, properties, stale_days, result, again>>

\* GET /search
CombinedSearch ==
    /\ pc = "ready"
    /\ \E location_given \in BOOLEAN, d \in Thresholds :
          /\ stale_days' = d
          /\ response' = combined_search(location_given, d)
    /\ pc' = "combined_search"
    /\ UNCHANGED <<now, api_key, upstream, properties, result, again>>

\* normalize_property on each raw listing
NormalizeProperty ==
    /\ pc = "ready"
    /\ result' = [op |-> "normalize_property",
                  out |-> [i \in 1..Len(properties) |-> normalize_property(properties[i], now)]]
    /\ pc' = "normalize_property"
    /\ UNCHANGED <<now, api_key, upstream, properties, stale_days, response, again>>

\* extract_stale_leads(properties, d)
ExtractStaleLeads ==
    /\ pc = "ready"
    /\ \E d \in Thresholds :
          /\ stale_days' = d
          /\ result' = [op |-> "extract_stale_leads",
                        out |-> extract_stale_leads(properties, d, now)]
    /\ pc' = "extract_stale_leads"
    /\ UNCHANGED <<now, api_key, upstream, properties, response, again>>

\* extract_stale_leads on the leads the previous call returned, same threshold
Reclassify ==
    /\ pc = "extract_stale_leads"
    /\ ~result.out.raised
    /\ again' = [op |-> "extract_stale_leads",
                 out |-> extract_stale_leads(result.out.value, stale_days, now)]
    /\ pc' = "reclassify"
    /\ UNCHANGED <<now, api_key, upstream, properties, stale_days, response, result>>

\* extract_distress_signals(properties)
ExtractDistressSignals ==
    /\ pc = "ready"
    /\ result' = [op |-> "extract_distress_signals",
                  out |-> extract_distress_signals(properties, now)]
    /\ pc' = "extract_distress_signals"
    /\ UNCHANGED <<now, api_key, upstream, properties, stale_days, response, again>>

Next ==
    \/ FindStale
    \/ FindDistress
    \/ CombinedSearch
    \/ NormalizeProperty
    \/ ExtractStaleLeads
    \/ Reclassify
    \/ ExtractDistressSignals

Spec == Init /\ [][Next]_vars

----------------------------------------------------------------------------
(* What the claims speak of *)

Range(s) == {s[i] : i \in 1..Len(s)}

\* a sequence position of x in s
IndexIn(s, x) == CHOOSE i \in 1..Len(s) : s[i] = x

Served(route) == pc = route /\ response.status = 200

\* listing i as normalize_property returns it
NormalizedAt(i) == normalize_property(properties[i], now).value

DaysAt(i) == NormalizedAt(i).days_on_market

\* listing i meets the threshold of the invocation
StaleAt(i) == IntGe(DaysAt(i), IntV(stale_days))

StaleIndices == {i \in 1..Len(properties) : StaleAt(i)}

\* listing j comes before listing i in the stale result: more days on the
\* market, or as many and earlier in the input
Before(j, i) ==
    \/ IntGe(DaysAt(j), DaysAt(i)) /\ DaysAt(j) # DaysAt(i)
    \/ DaysAt(j) = DaysAt(i) /\ j < i

\* the stale listing with k - 1 stale listings before it
StaleRanked(k) ==
    CHOOSE i \in StaleIndices : Cardinality({j \in StaleIndices : Before(j, i)}) = k - 1

ExpectedStale ==
    [k \in 1..Cardinality(StaleIndices) |->
        [signal |-> Str(<<"S","T","A","L","E">>)] @@ NormalizedAt(StaleRanked(k))]

\* the stale leads a route served
ServedStale ==
    IF pc = "find_stale" THEN response.body.leads ELSE response.body.stale_leads

\* C1: the stale result /find-stale and /search serve is exactly the normalized
\* listings with days_on_market >= d, each tagged STALE, by days_on_market
\* descending, listings of equal days_on_market in their input order.
C1_StaleResult ==
    (Served("find_stale") \/ Served("combined_search")) => ServedStale = ExpectedStale

\* C1's case: two different listings of equal days_on_market were served
C1_Witness ==
    /\ Served("find_stale")
    /\ Len(response.body.leads) = 2
    /\ response.body.leads[1] # response.body.leads[2]
    /\ response.body.leads[1].days_on_market = response.body.leads[2].days_on_market

\* the normalized listings of a normalize_property invocation that returned
Returned == {i \in 1..Len(properties) : ~result.out[i].raised}

\* C2: days_on_market is a non-negative integer, never null, and 0 when the
\* listing has no days field and no listing date.
C2_DaysNonNegative ==
    pc = "normalize_property" =>
        \A i \in Returned :
            /\ IsInt(result.out[i].value.days_on_market)
            /\ ~IsNegative(result.out[i].value.days_on_market)
            /\ (DOMAIN properties[i] \cap
                  {"days_on_market", "daysOnMarket", "dom", "list_date", "listDate",
                   "listed_date"} = {}
                => result.out[i].value.days_on_market = IntV(0))

\* C3: normalize_property, extract_stale_leads and extract_distress_signals
\* never raise, whatever the types of a listing's values.
C3_NeverRaises ==
    /\ pc = "normalize_property" => \A i \in 1..Len(properties) : ~result.out[i].raised
    /\ pc \in {"extract_stale_leads", "extract_distress_signals"} => ~result.out.raised

\* the lower-cased text extract_distress_signals searches for a lead: its
\* address and its description as presented
LeadText(lead) == Lower(PyStr(lead.address) \o <<" ">> \o PyStr(lead.description))

LeadKeywords(lead) == [k \in 1..Len(lead.matched_keywords.l) |-> lead.matched_keywords.l[k].s]

\* matched_keywords of a lead: not empty, exactly the configured keywords its
\* text contains, each once, in the order of the configured list
KeywordsRight(lead) ==
    /\ LeadKeywords(lead) # <<>>
    /\ \A kw \in Range(DISTRESS_KEYWORDS) :
          kw \in Range(LeadKeywords(lead)) <=> Contains(LeadText(lead), kw)
    /\ \A a, b \in 1..Len(LeadKeywords(lead)) :
          a < b => IndexIn(DISTRESS_KEYWORDS, LeadKeywords(lead)[a])
                     < IndexIn(DISTRESS_KEYWORDS, LeadKeywords(lead)[b])

EstateSaleText == Lower(<<"E","s","t","a","t","e"," ","S","a","l","e"," ","-"," ","M","o","t","i","v","a","t","e","d"," ","S","e","l","l","e","r">>)

DistressLeads == IF result.out.raised THEN {} ELSE Range(result.out.value)

TruthyIds(leads) == {x \in {leads[i].id : i \in 1..Len(leads)} : Truthy(x)}

\* the counts of the summary are the lengths of the two lead lists
CountsRight ==
    /\ response.body.summary.stale = Len(response.body.stale_leads)
    /\ response.body.summary.distress = Len(response.body.distress_leads)

HotExample == properties = <<BankOwned, Fresh>> /\ stale_days = 90

PriceKeys == {"price", "list_price", "listPrice", "price_raw"}

\* C6: price is a non-negative integer, 0 when the listing has no price field.
C6_PriceNonNegative ==
    pc = "normalize_property" =>
        \A i \in Returned :
            /\ IsInt(result.out[i].value.price)
            /\ ~IsNegative(result.out[i].value.price)
            /\ (DOMAIN properties[i] \cap PriceKeys = {} => result.out[i].value.price = IntV(0))

\* milliseconds per day, in units of Radix
MsPerDayHi == 86400000 \div Radix

\* a duration in milliseconds as whole days
MsToDays(v) == IntV(v.hi \div MsPerDayHi)

ExceedsPlausible(v) == IsInt(v) /\ IntGe(v, IntV(10001))

Zillow90 == BigV(77760, 0)

\* the first of the days fields the listing gives a true value for
FirstDays(prop) ==
    IF Truthy(Get(prop, "days_on_market")) THEN Get(prop, "days_on_market")
    ELSE IF Truthy(Get(prop, "daysOnMarket")) THEN Get(prop, "daysOnMarket")
    ELSE Get(prop, "dom")

DateKeys == {"list_date", "listDate", "listed_date"}

C8_Idempotent ==
    pc = "reclassify" =>
        /\ ~again.out.raised
        /\ Range(again.out.value) = Range(result.out.value)

\* the whole aggregated text of a listing: its address and its description at
\* full length, lower-cased
FullText(prop) ==
    Lower(PyStr(ResolveAddress(prop).value) \o <<" ">>
          \o (IF IsStr(ResolveDescription(prop)) THEN ResolveDescription(prop).s ELSE <<>>))

HasKeyword(text) == \E kw \in Range(DISTRESS_KEYWORDS) : Contains(text, kw)

DistressIndices == {i \in 1..Len(properties) : HasKeyword(FullText(properties[i]))}

\* the k-th listing, in input order, whose text holds a keyword
DistressRanked(k) ==
    CHOOSE i \in DistressIndices : Cardinality({j \in DistressIndices : j < i}) = k - 1

\* a lead without what the classifier added to the normalized listing
Untagged(lead) == [k \in DOMAIN lead \ {"signal", "matched_keywords"} |-> lead[k]]

\* C9: extract_distress_signals returns, in input order, exactly the listings
\* whose whole text holds a configured keyword, wherever in the upstream
\* description the keyword is.
C9_WholeText ==
    (pc = "extract_distress_signals" /\ ~result.out.raised) =>
        /\ Len(result.out.value) = Cardinality(DistressIndices)
        /\ \A k \in 1..Len(result.out.value) :
              Untagged(result.out.value[k]) = NormalizedAt(DistressRanked(k))

\* listing i is in the distress result
DistressAt(i) == MatchedKeywords(Searchable(NormalizedAt(i))) # <<>>

\* C10: every id of hot_lead_ids is the id of one input listing that is itself
\* in the stale result and in the distress result.
C10_HotIsOneListing ==
    (Served("combined_search") /\ "hot_lead_ids" \in DOMAIN response.body) =>
        \A h \in response.body.hot_lead_ids :
            \E i \in 1..Len(properties) :
                NormalizedAt(i).id = h /\ StaleAt(i) /\ DistressAt(i)

====
